---- MODULE Spec2Model ----
(***************************************************************************)
(* Marisol: bates numbering of a collection of PDF documents.              *)
(* Model of src/marisol/marisol.py: the numbering engine (Marisol.append,  *)
(* Document and Page construction, the bates strings), the overlay         *)
(* registry of a Document, Document.save and the thread-pool driven        *)
(* Marisol.save.                                                           *)
(*                                                                         *)
(* Strings are sequences of one-character strings, so that str(), zfill()  *)
(* and the file-name derivations are computed as Python computes them.     *)
(***************************************************************************)
EXTENDS Integers, Sequences, FiniteSets, TLC

VARIABLES
    prefix,      \* Marisol.prefix
    fill,        \* Marisol.fill
    start,       \* Marisol.start
    area,        \* Marisol.area
    index,       \* Marisol.index, the iterator position of the collection
    number,      \* Marisol.number, pages appended so far
    documents,   \* Marisol.documents, or the Document under test
    overwrite,   \* Marisol.overwrite
    fs,          \* the file system: existing path -> content
    calls,       \* the Document.save calls in flight (the pool's futures)
    threads,     \* width of the worker pool of the running Marisol.save
    pc,          \* "idle", "saving" (Marisol.save) or "docsave" (Document.save)
    outcome,     \* what the last save call returned or raised
    hist         \* history of the run: bookkeeping the properties read

vars == <<prefix, fill, start, area, index, number, documents, overwrite,
          fs, calls, threads, pc, outcome, hist>>

-----------------------------------------------------------------------------
(* Bounds of the model *)

MaxDocs == 2        \* documents appended to one collection
MaxPages == 2       \* pages of one source PDF
MaxSaves == 2       \* save calls of one run
MaxThreads == 2     \* width of the worker pool
MaxAdds == 2        \* add_overlay calls on one document
MaxBatch == 3       \* documents of the collection saved once, freshly built
MaxBatchPages == 1  \* pages of a source PDF of that collection

-----------------------------------------------------------------------------
(* Python's str, zfill, basename, splitext on character sequences *)

DigitChars == <<"0", "1", "2", "3", "4", "5", "6", "7", "8", "9">>

RECURSIVE str(_)
str(n) ==
    IF n < 0 THEN <<"-">> \o str(-n)
    ELSE IF n < 10 THEN <<DigitChars[n + 1]>>
    ELSE str(n \div 10) \o <<DigitChars[(n % 10) + 1]>>

Zeros(k) == [i \in 1..k |-> "0"]

\* a padding that also cuts the digits down to `width` characters
zfill_Cut(s, width) ==
    IF Len(s) >= width THEN SubSeq(s, Len(s) - width + 1, Len(s))
    ELSE IF Len(s) > 0 /\ s[1] \in {"+", "-"}
         THEN <<s[1]>> \o Zeros(width - Len(s)) \o Tail(s)
         ELSE Zeros(width - Len(s)) \o s

\* str.zfill: pads on the left to `width`, after a leading sign; never cuts
zfill(s, width) ==
    IF Len(s) >= width THEN s
    ELSE IF Len(s) > 0 /\ s[1] \in {"+", "-"}
         THEN <<s[1]>> \o Zeros(width - Len(s)) \o Tail(s)
         ELSE Zeros(width - Len(s)) \o s

\* position of the last occurrence of character c in s, 0 when there is none
RECURSIVE LastIndexOf(_, _)
LastIndexOf(s, c) ==
    IF Len(s) = 0 THEN 0
    ELSE IF s[Len(s)] = c THEN Len(s)
    ELSE LastIndexOf(SubSeq(s, 1, Len(s) - 1), c)

basename(p) == SubSeq(p, LastIndexOf(p, "/") + 1, Len(p))

\* os.path.splitext(p)[0]: cut at the last dot, unless the dot leads the name
splitext_root(p) ==
    LET dot == LastIndexOf(p, ".")
    IN IF dot > 1 THEN SubSeq(p, 1, dot - 1) ELSE p

-----------------------------------------------------------------------------
(* Areas and overlays *)

Area == {"TOP_LEFT", "TOP_RIGHT", "BOTTOM_LEFT", "BOTTOM_RIGHT"}

\* an empty slot of the registry (Python None)
None == [kind |-> "None", area |-> "None", id |-> 0]

\* the object made by BatesOverlay(...) or StaticOverlay(...); id is the
\* object's identity
Overlay(kind, a, id) == [kind |-> kind, area |-> a, id |-> id]

isBatesOverlay(o) == o.kind = "BatesOverlay"

-----------------------------------------------------------------------------
(* Page and Document construction *)

\* Page.__init__
Page(pfx, fl, st) ==
    [prefix |-> pfx, fill |-> fl, start |-> st, applied |-> 0]

\* the pages counted from 1 instead of 0
PageStart_OneBased(docStart, num) == docStart + num + 1

\* the start handed to the num-th page (num counts from 0)
PageStart(docStart, num) == docStart + num

\* Page.number, the bates string of a page
PageNumber(p) == p.prefix \o zfill(str(p.start), p.fill)

\* Document.__init__: file is [path, numPages]; oid is the identity of the
\* BatesOverlay object the constructor makes
Document(file, pfx, fl, st, a, oid) ==
    [savename |-> splitext_root(basename(file.path)),
     numPages |-> file.numPages,
     prefix   |-> pfx,
     fill     |-> fl,
     start    |-> st,
     area     |-> a,
     overlays |-> [x \in Area |-> IF x = a THEN Overlay("BatesOverlay", a, oid)
                                           ELSE None],
     index    |-> 0,
     pages    |-> [i \in 1..file.numPages |->
                     Page(pfx, fl, PageStart(st, i - 1))]]

\* Document.__len__
len(d) == d.numPages

\* Document.begin and Document.end
begin(d) == d.prefix \o zfill(str(d.start), d.fill)
end(d) == d.prefix \o zfill(str(d.start + len(d) - 1), d.fill)

-----------------------------------------------------------------------------
(* Inputs *)

\* source files handed to append: a path and the page count of the PDF
FilePaths == { <<"a", ".", "p", "d", "f">>,
               <<"d", "/", "a", ".", "p", "d", "f">> }
Files == [path : FilePaths, numPages : 0..MaxPages]

Prefixes == { <<"A", "B">> }
\* fill and start of the collection: a start the fill pads, and one whose
\* successors outgrow the fill
Numberings == { [fill |-> 3, start |-> 0], [fill |-> 1, start |-> 9] }

\* Marisol.output_dir
output_dir == <<"o">>

\* the filename argument left at its default, None
NoFilename == <<"None">>

EXISTS == <<"E", "X", "I", "S", "T", "S">>

-----------------------------------------------------------------------------
(* The file system *)

Absent == [state |-> "absent", pages |-> <<>>]
Foreign == [state |-> "foreign", pages |-> <<>>]

exists(path) == path \in DOMAIN fs

Content(path) == IF exists(path) THEN fs[path] ELSE Absent

\* the file system after `path` is given content c
Put(path, c) == [p \in DOMAIN fs \cup {path} |-> IF p = path THEN c ELSE fs[p]]

-----------------------------------------------------------------------------
(* Marisol: append and iteration *)

\* the history and the result a new call of the user starts from
NoOutcome == [kind |-> "none", value |-> <<>>]
NoHist == [saves |-> 0, adds |-> 0, op |-> "none", arg |-> <<>>,
           before |-> <<>>, files |-> <<>>, done |-> <<>>,
           submitted |-> <<>>, fresh |-> FALSE, faults |-> 0]
Forget == [NoHist EXCEPT !.saves = hist.saves, !.adds = hist.adds]

\* the running offset counting documents instead of pages
AppendStart_ByCount == start + Len(documents)

\* the start number append hands to the new Document
AppendStart == start + number

\* Marisol.append
append(file, limit) ==
    /\ pc = "idle"
    /\ Len(documents) < limit
    /\ LET d == Document(file, prefix, fill, AppendStart, area,
                         Len(documents) + 1)
       IN /\ number' = number + len(d)
          /\ documents' = Append(documents, d)
    /\ outcome' = NoOutcome
    /\ hist' = Forget
    /\ UNCHANGED <<prefix, fill, start, area, index, overwrite, fs, calls,
                   threads, pc>>

\* Marisol.__next__, called by the user of the collection
next ==
    /\ pc = "idle"
    /\ index < Len(documents)
    /\ index' = index + 1
    /\ outcome' = NoOutcome
    /\ hist' = Forget
    /\ UNCHANGED <<prefix, fill, start, area, number, documents, overwrite,
                   fs, calls, threads, pc>>

-----------------------------------------------------------------------------
(* Document.save, one call of it being calls[k] *)

\* Marisol._save_document: the path handed to Document.save
save_path(d) == output_dir \o <<"/">> \o d.savename

\* the file name without the start number
ResolveFilename_NoStart(d, filename) ==
    IF filename = NoFilename
    THEN begin(d) \o <<".", "p", "d", "f">>
    ELSE filename \o <<".", "p", "d", "f">>

\* Document.save: the resolved file name
ResolveFilename(d, filename) ==
    IF filename = NoFilename
    THEN begin(d) \o <<".", "p", "d", "f">>
    ELSE filename \o <<"_">> \o zfill(str(d.start), d.fill)
                  \o <<".", "p", "d", "f">>

\* a call of Document.save on documents[i]
Call(i, filename, ow, st) ==
    [doc |-> i, base |-> filename, overwrite |-> ow, state |-> st,
     filename |-> <<>>, prev |-> Absent, writer |-> <<>>,
     exception |-> "", value |-> <<>>]

\* the collision reported under the file name instead of the EXISTS tag
SaveDocumentResult_Named(c, exc, fname) ==
    IF exc = ""
    THEN [c EXCEPT !.state = "done", !.value = <<fname, TRUE>>]
    ELSE [c EXCEPT !.state = "done", !.value = <<fname, FALSE>>]

\* Marisol._save_document: what the task makes of Document.save's end
\* (exc = "" when it returned fname)
SaveDocumentResult(c, exc, fname) ==
    IF exc = "FileExistsError"
    THEN [c EXCEPT !.state = "done", !.value = <<EXISTS, FALSE>>]
    ELSE IF exc = ""
    THEN [c EXCEPT !.state = "done", !.value = <<fname, TRUE>>]
    ELSE [c EXCEPT !.state = "done", !.exception = exc]

\* the end of a Document.save call: under Marisol.save it ends the task,
\* called directly it returns or raises to the caller
Finish(c, exc, fname) ==
    IF pc = "saving"
    THEN SaveDocumentResult(c, exc, fname)
    ELSE [c EXCEPT !.state = "done", !.exception = exc,
                   !.value = IF exc = "" THEN fname ELSE <<>>]

\* history: the calls in the order they ended
Ended(c) == [hist EXCEPT !.done = Append(@, c)]

\* the overwrite switch read the wrong way round
Collides_Inverted(filename, ow) == exists(filename) /\ ow

\* does the collision check of Document.save raise?
Collides(filename, ow) == exists(filename) /\ ~ow

\* Document.save, lines 232-238, on the call c: resolve the name, check for
\* a collision; the call after it
Checked(c) ==
    LET filename == ResolveFilename(documents[c.doc], c.base)
        c1 == [c EXCEPT !.filename = filename, !.prev = Content(filename)]
    IN IF Collides(filename, c.overwrite)
       THEN Finish(c1, "FileExistsError", filename)
       ELSE [c1 EXCEPT !.state = "open"]

\* the collision check of a Document.save the user called
SaveCheck(k) ==
    /\ pc = "docsave"
    /\ calls[k].state = "check"
    /\ LET e == Checked(calls[k])
       IN /\ calls' = [calls EXCEPT ![k] = e]
          /\ hist' = IF e.state = "done" THEN Ended(e) ELSE hist
    /\ UNCHANGED <<prefix, fill, start, area, index, number, documents,
                   overwrite, fs, threads, pc, outcome>>

\* the content open(filename, "wb") leaves at the path
Truncated == [state |-> "partial", pages |-> <<>>]

\* Document.save, line 240: open the destination for writing
SaveOpen(k) ==
    /\ calls[k].state = "open"
    /\ fs' = Put(calls[k].filename, Truncated)
    /\ calls' = [calls EXCEPT ![k].state = "write"]
    /\ UNCHANGED <<prefix, fill, start, area, index, number, documents,
                   overwrite, threads, pc, outcome, hist>>

\* the page loop rewound to the first page on every save
RenderPages_Rewound(d) ==
    [d EXCEPT !.index = len(d),
              !.pages = [j \in 1..Len(@) |-> [@[j] EXCEPT !.applied = @ + 1]]]

\* `for page in self` (Document.__next__) with Page.apply and writer.addPage
\* on every page it yields: the document after the loop
RECURSIVE RenderPages(_)
RenderPages(d) ==
    IF d.index >= len(d) THEN d
    ELSE RenderPages([d EXCEPT !.index = @ + 1,
                               !.pages[d.index + 1].applied = @ + 1])

\* the pages the loop hands to writer.addPage, in the order it adds them
AddedPages(d) == [j \in 1..(len(d) - d.index) |-> d.index + j]

\* what writer.write puts in the file: the pages added to the writer
Written(d, writer) ==
    [state |-> "full", pages |-> [j \in 1..Len(writer) |-> d.pages[writer[j]]]]

\* Document.save, lines 241-246: render the pages the iterator yields, write
\* them, close the file, return the name. The loop touches this document's
\* pages alone, so it is one step with the write.
SaveWrite(k) ==
    /\ calls[k].state = "write"
    /\ LET c == [calls[k] EXCEPT !.writer = AddedPages(documents[calls[k].doc])]
           d == RenderPages(documents[c.doc])
           e == Finish(c, "", c.filename)
       IN /\ documents' = [documents EXCEPT ![c.doc] = d]
          /\ fs' = Put(c.filename, Written(d, c.writer))
          /\ calls' = [calls EXCEPT ![k] = e]
          /\ hist' = Ended(e)
    /\ UNCHANGED <<prefix, fill, start, area, index, number, overwrite,
                   threads, pc, outcome>>

\* open, Page.apply or writer.write raises (an OSError, a render error):
\* the exception leaves Document.save, the file stays as it is by then
SaveFail(k) ==
    /\ calls[k].state \in {"open", "write"}
    /\ LET e == Finish(calls[k], "Error", calls[k].filename)
       IN /\ calls' = [calls EXCEPT ![k] = e]
          /\ hist' = [Ended(e) EXCEPT !.faults = @ + 1]
    /\ UNCHANGED <<prefix, fill, start, area, index, number, documents,
                   overwrite, fs, threads, pc, outcome>>

-----------------------------------------------------------------------------
(* Marisol.save *)

Running == {k \in 1..Len(calls) : calls[k].state \notin {"queued", "done"}}

\* the documents Marisol.__next__ yields to executor.map, from the
\* collection's own iterator position on
Submitted == [k \in 1..(Len(documents) - index) |-> index + k]

\* Marisol.save, lines 125-127: set overwrite, submit one task per document
\* the iterator yields
SaveBegin(ow, t, limit) ==
    /\ pc = "idle"
    /\ hist.saves < limit
    /\ overwrite' = ow
    /\ threads' = t
    /\ calls' = [k \in 1..Len(Submitted) |->
                   Call(Submitted[k], save_path(documents[Submitted[k]]),
                        ow, "queued")]
    /\ index' = IF index < Len(documents) THEN Len(documents) ELSE index
    /\ pc' = "saving"
    /\ hist' = [Forget EXCEPT !.saves = @ + 1, !.op = "Marisol.save",
                               !.submitted = Submitted,
                               !.files = fs,
                               !.fresh = (index = 0 /\ hist.saves = 0)]
    /\ outcome' = NoOutcome
    /\ UNCHANGED <<prefix, fill, start, area, number, documents, fs>>

\* a worker of the pool takes the next task off the queue and runs
\* _save_document up to the collision check of Document.save: it reads
\* self.overwrite and the document's savename, which no task writes
TaskStart(k) ==
    /\ pc = "saving"
    /\ calls[k].state = "queued"
    /\ \A j \in 1..(k - 1) : calls[j].state # "queued"
    /\ Cardinality(Running) < threads
    /\ LET e == Checked([calls[k] EXCEPT !.overwrite = overwrite])
       IN /\ calls' = [calls EXCEPT ![k] = e]
          /\ hist' = IF e.state = "done" THEN Ended(e) ELSE hist
    /\ UNCHANGED <<prefix, fill, start, area, index, number, documents,
                   overwrite, fs, threads, pc, outcome>>

\* the values in the order the tasks ended
CollectResults_AsCompleted(futs, done) == [k \in 1..Len(done) |-> done[k].value]

\* list(results): the futures' values in the order they were submitted
CollectResults(futs, done) == [k \in 1..Len(futs) |-> futs[k].value]

FirstRaised(futs) ==
    LET bad == {k \in 1..Len(futs) : futs[k].exception # ""}
    IN IF bad = {} THEN 0 ELSE CHOOSE k \in bad : \A j \in bad : k <= j

\* Marisol.save, lines 127-128: the pool has shut down, every task is done;
\* list(results) returns the values or raises the first stored exception
SaveEnd ==
    /\ pc = "saving"
    /\ \A k \in 1..Len(calls) : calls[k].state = "done"
    /\ outcome' = IF FirstRaised(calls) = 0
                  THEN [kind |-> "returned",
                        value |-> CollectResults(calls, hist.done)]
                  ELSE [kind |-> "raised",
                        value |-> <<calls[FirstRaised(calls)].exception>>]
    /\ calls' = <<>>
    /\ threads' = 1
    /\ pc' = "idle"
    /\ UNCHANGED <<prefix, fill, start, area, index, number, documents,
                   overwrite, fs, hist>>

\* a file lies at a path a document of the collection resolves to, before
\* the collection is first saved (later saves meet the files of earlier ones)
CreateFile(i) ==
    /\ pc = "idle"
    /\ hist.saves = 0
    /\ LET path == ResolveFilename(documents[i], save_path(documents[i]))
       IN /\ ~exists(path)
          /\ fs' = Put(path, Foreign)
    /\ outcome' = NoOutcome
    /\ hist' = Forget
    /\ UNCHANGED <<prefix, fill, start, area, index, number, documents,
                   overwrite, calls, threads, pc>>

-----------------------------------------------------------------------------
(* The collection: append, iterate, save *)

Init ==
    /\ prefix \in Prefixes
    /\ \E n \in Numberings : fill = n.fill /\ start = n.start
    /\ area = "BOTTOM_RIGHT"
    /\ index = 0
    /\ number = 0
    /\ documents = <<>>
    /\ overwrite = FALSE
    /\ fs = <<>>
    /\ calls = <<>>
    /\ threads = 1
    /\ pc = "idle"
    /\ outcome = NoOutcome
    /\ hist = NoHist

Next ==
    \/ \E file \in Files : append(file, MaxDocs)
    \/ next
    \/ \E i \in 1..Len(documents) : CreateFile(i)
    \/ \E ow \in BOOLEAN, t \in 1..MaxThreads : SaveBegin(ow, t, MaxSaves)
    \/ \E k \in 1..Len(calls) : TaskStart(k)
    \/ \E k \in 1..Len(calls) : SaveOpen(k)
    \/ \E k \in 1..Len(calls) : SaveWrite(k)
    \/ \E k \in 1..Len(calls) : SaveFail(k)
    \/ SaveEnd

Spec == Init /\ [][Next]_vars

-----------------------------------------------------------------------------
(* A collection that is built and then saved once with overwrite = false *)

BatchFiles == [path : FilePaths, numPages : 0..MaxBatchPages]

NextFresh ==
    \/ \E file \in BatchFiles : append(file, MaxBatch)
    \/ \E i \in 1..Len(documents) : CreateFile(i)
    \/ \E t \in 1..MaxThreads : SaveBegin(FALSE, t, 1)
    \/ \E k \in 1..Len(calls) : TaskStart(k)
    \/ \E k \in 1..Len(calls) : SaveOpen(k)
    \/ \E k \in 1..Len(calls) : SaveWrite(k)
    \/ \E k \in 1..Len(calls) : SaveFail(k)
    \/ SaveEnd

FreshSpec == Init /\ [][NextFresh]_vars

-----------------------------------------------------------------------------
(* One Document, built directly: add_overlay, iteration, save *)

\* the overlay objects the user makes and hands to add_overlay
UserOverlays ==
    { Overlay(kind, a, 100) : kind \in {"BatesOverlay", "StaticOverlay"},
                              a \in Area }

\* the filename arguments of Document.save
Filenames == { NoFilename, <<"o", "/", "x">> }

\* the test made on the overlay handed in instead of on the slot
Reserved_ByArgument(d, overlay) == isBatesOverlay(overlay)

\* Document.add_overlay, line 259: is the overlay's area taken by a bates
\* stamp?
Reserved(d, overlay) == isBatesOverlay(d.overlays[overlay.area])

\* Document.add_overlay
add_overlay(overlay) ==
    /\ pc = "idle"
    /\ hist.adds < MaxAdds
    /\ LET d == documents[1]
       IN IF Reserved(d, overlay)
          THEN /\ outcome' = [kind |-> "raised", value |-> <<"ValueError">>]
               /\ documents' = documents
          ELSE /\ outcome' = [kind |-> "returned", value |-> <<>>]
               /\ documents' =
                     [documents EXCEPT ![1].overlays[overlay.area] = overlay]
    /\ hist' = [Forget EXCEPT !.adds = @ + 1, !.op = "add_overlay",
                              !.arg = overlay, !.before = documents]
    /\ UNCHANGED <<prefix, fill, start, area, index, number, overwrite, fs,
                   calls, threads, pc>>

\* Document.__next__, called by the user of the document
DocNext ==
    /\ pc = "idle"
    /\ documents[1].index < len(documents[1])
    /\ documents' = [documents EXCEPT ![1].index = @ + 1]
    /\ outcome' = NoOutcome
    /\ hist' = Forget
    /\ UNCHANGED <<prefix, fill, start, area, index, number, overwrite, fs,
                   calls, threads, pc>>

\* the user calls Document.save(filename, overwrite)
DocSaveBegin(filename, ow) ==
    /\ pc = "idle"
    /\ hist.saves < MaxSaves
    /\ calls' = <<Call(1, filename, ow, "check")>>
    /\ pc' = "docsave"
    /\ outcome' = NoOutcome
    /\ hist' = [Forget EXCEPT !.saves = @ + 1, !.op = "Document.save",
                              !.arg = [filename |-> filename,
                                       overwrite |-> ow],
                              !.before = documents, !.files = fs]
    /\ UNCHANGED <<prefix, fill, start, area, index, number, documents,
                   overwrite, fs, threads>>

\* Document.save returns the file name or raises to the user
DocSaveEnd ==
    /\ pc = "docsave"
    /\ Len(calls) = 1
    /\ calls[1].state = "done"
    /\ outcome' = IF calls[1].exception = ""
                  THEN [kind |-> "returned", value |-> calls[1].value]
                  ELSE [kind |-> "raised", value |-> <<calls[1].exception>>]
    /\ calls' = <<>>
    /\ pc' = "idle"
    /\ UNCHANGED <<prefix, fill, start, area, index, number, documents,
                   overwrite, fs, threads, hist>>

\* a file appears at a path a save of the document resolves to
CreateDocFile(filename) ==
    /\ pc = "idle"
    /\ LET path == ResolveFilename(documents[1], filename)
       IN /\ ~exists(path)
          /\ fs' = Put(path, Foreign)
    /\ outcome' = NoOutcome
    /\ hist' = Forget
    /\ UNCHANGED <<prefix, fill, start, area, index, number, documents,
                   overwrite, calls, threads, pc>>

DocInit ==
    /\ prefix \in Prefixes
    /\ \E n \in Numberings : fill = n.fill /\ start = n.start
    /\ area \in Area
    /\ index = 0
    /\ number = 0
    /\ \E file \in Files :
          documents = <<Document(file, prefix, fill, start, area, 1)>>
    /\ overwrite = FALSE
    /\ fs = <<>>
    /\ calls = <<>>
    /\ threads = 1
    /\ pc = "idle"
    /\ outcome = NoOutcome
    /\ hist = NoHist

NextDoc ==
    \/ DocNext
    \/ \E f \in Filenames : CreateDocFile(f)
    \/ \E f \in Filenames, ow \in BOOLEAN : DocSaveBegin(f, ow)
    \/ \E k \in 1..Len(calls) : SaveCheck(k)
    \/ \E k \in 1..Len(calls) : SaveOpen(k)
    \/ \E k \in 1..Len(calls) : SaveWrite(k)
    \/ \E k \in 1..Len(calls) : SaveFail(k)
    \/ DocSaveEnd

DocSpec == DocInit /\ [][NextDoc]_vars

\* the registry of one Document under add_overlay
NextOverlay == \E o \in UserOverlays : add_overlay(o)

OverlaySpec == DocInit /\ [][NextOverlay]_vars

-----------------------------------------------------------------------------
(* Reading a bates string back: Python's int() on a signed digit string *)

DigitValue(c) ==
    CASE c = "0" -> 0 [] c = "1" -> 1 [] c = "2" -> 2 [] c = "3" -> 3
      [] c = "4" -> 4 [] c = "5" -> 5 [] c = "6" -> 6 [] c = "7" -> 7
      [] c = "8" -> 8 [] c = "9" -> 9

\* the value of the digits s[from..to]
RECURSIVE IntOfDigits(_, _, _)
IntOfDigits(s, from, to) ==
    IF to < from THEN 0
    ELSE 10 * IntOfDigits(s, from, to - 1) + DigitValue(s[to])

\* int() of the characters of s behind the first `skip`
IntBehind(s, skip) ==
    IF s[skip + 1] = "-" THEN 0 - IntOfDigits(s, skip + 2, Len(s))
    ELSE IntOfDigits(s, skip + 1, Len(s))

\* the number behind a bates string of the given prefix
NumberBehind(pfx, bates) == IntBehind(bates, Len(pfx))

\* the page counts of the first n documents, summed
RECURSIVE PagesBefore(_)
PagesBefore(n) == IF n = 0 THEN 0 ELSE PagesBefore(n - 1) + len(documents[n])

\* the place of page j of document i among all pages of the collection,
\* counted from 0 in document order then page order
PlaceOf(i, j) == PagesBefore(i - 1) + (j - 1)

-----------------------------------------------------------------------------
(* Properties of the numbering *)

NumberingInv ==
    \A i \in 1..Len(documents) :
        documents[i].start = start + PagesBefore(i - 1)

StartsStable ==
    \A i \in 1..Len(documents) :
        /\ i <= Len(documents')
        /\ documents'[i].start = documents[i].start

\* C1: under any interleaving of append and save calls, the i-th appended
\* document starts at the collection's start plus the page counts of the
\* documents appended before it, and no step changes the start of a document
\* already appended.
C1_AppendNumbering == []NumberingInv /\ [][StartsStable]_vars

\* a document appended after the first one was saved, behind a first document
\* that has pages
C1_Witness ==
    /\ pc = "idle"
    /\ hist.saves >= 1
    /\ Len(documents) = 2
    /\ len(documents[1]) = 2
    /\ documents[1].index = 2
    /\ documents[2].index = 0
    /\ documents[2].start = start + 2

\* C2: every page's number is its document's start plus its zero-based index,
\* the number behind a document's end string is start + page count - 1, and
\* the page numbers of the whole collection, in document order then page
\* order, are start, start + 1, ..., start + total - 1: the page at place n
\* of that order has number start + n.
C2_PageNumbers ==
    \A i \in 1..Len(documents) :
        LET d == documents[i]
        IN /\ Len(d.pages) = len(d)
           /\ NumberBehind(d.prefix, end(d)) = d.start + len(d) - 1
           /\ \A j \in 1..Len(d.pages) :
                 LET n == NumberBehind(d.prefix, PageNumber(d.pages[j]))
                 IN /\ n = d.start + (j - 1)
                    /\ n = start + PlaceOf(i, j)

\* two documents with pages, the first with more than one
C2_Witness ==
    /\ Len(documents) = 2
    /\ len(documents[1]) = 2
    /\ len(documents[2]) >= 1
    /\ PageNumber(documents[2].pages[1])
           = prefix \o zfill(str(start + 2), fill)

-----------------------------------------------------------------------------
(* Properties of Marisol.save *)

SaveReturned ==
    /\ hist.op = "Marisol.save"
    /\ pc = "idle"

\* C3: Marisol.save never raises because one document's task failed: it
\* returns one (identifier, ok) entry for every submitted document.
C3_SaveNeverRaises ==
    SaveReturned =>
        /\ outcome.kind = "returned"
        /\ Len(outcome.value) = Len(hist.submitted)
        /\ \A k \in 1..Len(outcome.value) : outcome.value[k][2] \in BOOLEAN

\* C4: every call of Marisol.save returns one entry per document of the
\* collection, also a repeated call and a call after the collection was
\* iterated or appended to.
C4_OneEntryPerDocument ==
    (SaveReturned /\ outcome.kind = "returned") =>
        Len(outcome.value) = Len(documents)

\* the call of hist.done that saved document i
DoneOf(i) == CHOOSE e \in {hist.done[n] : n \in 1..Len(hist.done)} : e.doc = i

\* C5: whatever the order in which the tasks of the pool end, the k-th entry
\* of the list Marisol.save returns is the outcome of the task of the k-th
\* submitted document.
C5_ResultsInSubmitOrder ==
    (SaveReturned /\ outcome.kind = "returned") =>
        /\ Len(outcome.value) = Len(hist.submitted)
        /\ \A k \in 1..Len(outcome.value) :
              outcome.value[k] = DoneOf(hist.submitted[k]).value

\* a save returned two entries whose tasks ended in the other order
C5_Witness ==
    /\ SaveReturned
    /\ outcome.kind = "returned"
    /\ Len(outcome.value) = 2
    /\ hist.done[1].doc = hist.submitted[2]
    /\ outcome.value[1] # outcome.value[2]

\* the path Marisol.save resolves for document i
PathOf(i) == ResolveFilename(documents[i], save_path(documents[i]))

\* the documents whose resolved path existed when the save began
Collided == {i \in 1..Len(documents) : PathOf(i) \in DOMAIN hist.files}

\* a freshly built collection was saved with overwrite = false, exactly one
\* document's path existed, and nothing else went wrong
OneCollision ==
    /\ SaveReturned
    /\ hist.fresh
    /\ ~overwrite
    /\ hist.faults = 0
    /\ Cardinality(Collided) = 1

\* one entry per document, the collision for the document whose path
\* existed, success and a written file for every other
OnlyTheCollisionFails ==
    /\ outcome.kind = "returned"
    /\ Len(outcome.value) = Len(documents)
    /\ \A i \in 1..Len(documents) :
          IF i \in Collided
          THEN outcome.value[i] = <<EXISTS, FALSE>>
          ELSE /\ outcome.value[i] = <<PathOf(i), TRUE>>
               /\ Content(PathOf(i)).state = "full"
               /\ Content(PathOf(i)).pages = documents[i].pages

DistinctPaths ==
    \A i, j \in 1..Len(documents) : i # j => PathOf(i) # PathOf(j)

-----------------------------------------------------------------------------
(* Properties of Document.save *)

DocSaveEnded ==
    /\ hist.op = "Document.save"
    /\ pc = "idle"

\* the path the ended Document.save resolved
SavedPath == ResolveFilename(hist.before[1], hist.arg.filename)

PathExisted == SavedPath \in DOMAIN hist.files

\* C7: Document.save with overwrite = false on a path that exists raises
\* FileExistsError, and leaves the files and the document's pages as they
\* were: nothing is rendered, written or created.
C7_CollisionBeforeWrite ==
    (DocSaveEnded /\ PathExisted /\ ~hist.arg.overwrite) =>
        /\ outcome = [kind |-> "raised", value |-> <<"FileExistsError">>]
        /\ fs = hist.files
        /\ documents = hist.before

\* a save of a document with pages onto a taken path, overwrite off
C7_Witness ==
    /\ DocSaveEnded
    /\ PathExisted
    /\ ~hist.arg.overwrite
    /\ len(documents[1]) >= 1
    /\ documents[1].index = 0
    /\ outcome.kind = "raised"

\* the pages Document.save would write, all of them rendered
FullDocument == [state |-> "full", pages |-> documents[1].pages]

\* C8: a Document.save that fails after the collision check leaves at the
\* destination its previous content (or no file) or the full document, and
\* does not report success.
C8_AllOrNothing ==
    (DocSaveEnded /\ outcome.kind = "raised"
                  /\ outcome.value # <<"FileExistsError">>) =>
        \/ Content(SavedPath) = (IF PathExisted THEN hist.files[SavedPath]
                                                ELSE Absent)
        \/ Content(SavedPath) = FullDocument

-----------------------------------------------------------------------------
(* Properties of the overlay registry *)

Added == hist.op = "add_overlay"

SlotBefore == hist.before[1].overlays[hist.arg.area]

\* C9: add_overlay onto the area that holds the numbering overlay raises
\* ValueError and leaves the registry as it was; onto an unused area it
\* succeeds and changes that slot alone.
C9_AreaReserved ==
    Added =>
        /\ isBatesOverlay(SlotBefore) =>
              /\ outcome = [kind |-> "raised", value |-> <<"ValueError">>]
              /\ documents = hist.before
        /\ SlotBefore = None =>
              /\ outcome.kind = "returned"
              /\ documents = [hist.before EXCEPT
                                ![1].overlays[hist.arg.area] = hist.arg]

\* a static overlay was refused on the area of the numbering overlay
C9_Witness ==
    /\ Added
    /\ hist.arg.kind = "StaticOverlay"
    /\ hist.arg.area = area
    /\ outcome.kind = "raised"

BatesSlots == {a \in Area : isBatesOverlay(documents[1].overlays[a])}

\* C10: whatever overlays are added, the registry has the four area slots,
\* at most one of them holds a numbering overlay, and that one is the
\* overlay made at construction, in the area given at construction.
C10_OneNumberingOverlay ==
    /\ DOMAIN documents[1].overlays = Area
    /\ Cardinality(BatesSlots) <= 1
    /\ documents[1].overlays[area] = Overlay("BatesOverlay", area, 1)

-----------------------------------------------------------------------------
(* One Page and its redactions *)

MaxRedactions == 2  \* redactions attached to one page

\* the mediaBox (width, height) of the pages of a source PDF
PageBoxes == { <<2, 3>>, <<3, 2>> }

\* a one-page source PDF with a page size
PageFiles == [path : { <<"a", ".", "p", "d", "f">> }, numPages : {1},
              mediaBox : PageBoxes]

\* Page.__init__, lines 285-291: the page's size as read from its mediaBox,
\* its canvas (the operations drawn on it, none yet), no redactions, and
\* nothing merged onto the PDF page
Surface(box) ==
    [width |-> box[1], height |-> box[2], canvas |-> <<>>,
     redactions |-> <<>>, merged |-> <<>>]

\* Document.__init__ on a source whose pages have the size file.mediaBox
DocumentOf(file, pfx, fl, st, a, oid) ==
    LET d == Document(file, pfx, fl, st, a, oid)
    IN [d EXCEPT !.pages = [j \in 1..Len(@) |->
                              @[j] @@ Surface(file.mediaBox)]]

\* Redaction.__init__: position (from-left, from-bottom) and size
Redaction(position, size) == [position |-> position, size |-> size]

\* the redactions the user makes for a page p: at and beyond the page's
\* edges, with negative position and with negative size
RedactionsFor(p) ==
    { Redaction(<<0, 0>>, <<p.width, p.height>>),
      Redaction(<<0, 0>>, <<p.width + 1, p.height>>),
      Redaction(<<0, 0>>, <<p.width, p.height + 1>>),
      Redaction(<<1, 1>>, <<p.width - 1, p.height - 1>>),
      Redaction(<<1, 0>>, <<p.width, p.height>>),
      Redaction(<<0, 0>>, <<0, 0>>),
      Redaction(<<-1, 0>>, <<1, 1>>),
      Redaction(<<1, 1>>, <<-2, 1>>),
      Redaction(<<p.width + 1, 0>>, <<-1, 1>>) }

\* the test with >= : a redaction that touches the edge is refused
Outside_Exclusive(p, r) ==
    \/ r.position[1] + r.size[1] >= p.width
    \/ r.position[2] + r.size[2] >= p.height

\* Page.add_redaction, line 305: the test that raises OutsideBoundariesError
Outside(p, r) ==
    \/ r.position[1] + r.size[1] > p.width
    \/ r.position[2] + r.size[2] > p.height

\* the redactions attached to the pages of the document
Attached ==
    LET RECURSIVE Sum(_)
        Sum(j) == IF j = 0 THEN 0
                  ELSE Sum(j - 1) + Len(documents[1].pages[j].redactions)
    IN Sum(Len(documents[1].pages))

\* Page.add_redaction on page j of the document
add_redaction(j, r) ==
    /\ pc = "idle"
    /\ Attached < MaxRedactions
    /\ IF Outside(documents[1].pages[j], r)
       THEN /\ outcome' = [kind |-> "raised",
                           value |-> <<"OutsideBoundariesError">>]
            /\ documents' = documents
       ELSE /\ outcome' = [kind |-> "returned", value |-> <<>>]
            /\ documents' = [documents EXCEPT
                               ![1].pages[j].redactions = Append(@, r)]
    /\ hist' = [Forget EXCEPT !.op = "add_redaction",
                              !.arg = [page |-> j, redaction |-> r],
                              !.before = documents]
    /\ UNCHANGED <<prefix, fill, start, area, index, number, overwrite, fs,
                   calls, threads, pc>>

\* one Document of one page, built directly
PageInit ==
    /\ prefix \in Prefixes
    /\ \E n \in Numberings : fill = n.fill /\ start = n.start
    /\ area \in Area
    /\ index = 0
    /\ number = 0
    /\ \E file \in PageFiles :
          documents = <<DocumentOf(file, prefix, fill, start, area, 1)>>
    /\ overwrite = FALSE
    /\ fs = <<>>
    /\ calls = <<>>
    /\ threads = 1
    /\ pc = "idle"
    /\ outcome = NoOutcome
    /\ hist = NoHist

NextRedact ==
    \E j \in 1..Len(documents[1].pages) :
        \E r \in RedactionsFor(documents[1].pages[j]) : add_redaction(j, r)

RedactSpec == PageInit /\ [][NextRedact]_vars

-----------------------------------------------------------------------------
(* Properties of Page.add_redaction *)

\* the bounding box [x, x+w] x [y, y+h] of r lies on the page p
OnPage(p, r) ==
    /\ 0 <= r.position[1] /\ r.position[1] <= p.width
    /\ 0 <= r.position[1] + r.size[1]
    /\ r.position[1] + r.size[1] <= p.width
    /\ 0 <= r.position[2] /\ r.position[2] <= p.height
    /\ 0 <= r.position[2] + r.size[2]
    /\ r.position[2] + r.size[2] <= p.height

\* C11: after any sequence of add_redaction calls, every redaction in a
\* page's list has its bounding box within [0, width] x [0, height] of the
\* page, also a redaction given with a negative position or size.
C11_RedactionsOnPage ==
    \A j \in 1..Len(documents[1].pages) :
        LET p == documents[1].pages[j]
        IN \A n \in 1..Len(p.redactions) : OnPage(p, p.redactions[n])

Redacted == hist.op = "add_redaction"

\* the page the last add_redaction was called on, before and after the call
PageBefore == hist.before[1].pages[hist.arg.page]
PageAfter == documents[1].pages[hist.arg.page]

\* C12: add_redaction with a rectangle that exceeds the page's width or
\* height raises the outside-boundaries error and leaves the redaction list
\* as it was; position (0,0) with size (width, height) is accepted and
\* appended, with size (width+1, height) it is refused.
C12_BoundaryInclusive ==
    Redacted =>
        LET r == hist.arg.redaction
            p == PageBefore
            raised == outcome = [kind |-> "raised",
                                 value |-> <<"OutsideBoundariesError">>]
        IN /\ (\/ r.position[1] + r.size[1] > p.width
               \/ r.position[2] + r.size[2] > p.height) =>
                 /\ raised
                 /\ documents = hist.before
           /\ r = Redaction(<<0, 0>>, <<p.width, p.height>>) =>
                 /\ outcome.kind = "returned"
                 /\ PageAfter.redactions = Append(p.redactions, r)
           /\ r = Redaction(<<0, 0>>, <<p.width + 1, p.height>>) => raised

\* the whole page was redacted on a page that already had a redaction
C12_Witness ==
    /\ Redacted
    /\ hist.arg.redaction
          = Redaction(<<0, 0>>, <<PageBefore.width, PageBefore.height>>)
    /\ Len(PageBefore.redactions) = 1
    /\ Len(PageAfter.redactions) = 2
    /\ outcome.kind = "returned"

-----------------------------------------------------------------------------
(* Properties of the page loop of Document.save *)

\* C13: a Document.save that passes the collision check and returns has
\* rendered every page of the document, in index order, and has written an
\* output of all n pages, whatever came before the save: an iteration of the
\* document's pages or an earlier save.
C13_SaveRendersAllPages ==
    (DocSaveEnded /\ outcome.kind = "returned") =>
        /\ Content(SavedPath).state = "full"
        /\ Len(Content(SavedPath).pages) = len(documents[1])
        /\ \A j \in 1..len(documents[1]) :
              /\ Content(SavedPath).pages[j] = documents[1].pages[j]
              /\ documents[1].pages[j].applied
                    = hist.before[1].pages[j].applied + 1

\* the stamps of the pages of a written file, in the order of its pages
Stamps(content) == [j \in 1..Len(content.pages) |-> PageNumber(content.pages[j])]

\* C14: a second save of a document, with overwrite on, onto the file an
\* earlier save of it wrote, writes the same sequence of pages with the same
\* stamps.
C14_SecondSaveIdentical ==
    (/\ DocSaveEnded
     /\ outcome.kind = "returned"
     /\ hist.arg.overwrite
     /\ PathExisted
     /\ hist.files[SavedPath].state = "full") =>
        /\ Content(SavedPath).state = "full"
        /\ Stamps(Content(SavedPath)) = Stamps(hist.files[SavedPath])

-----------------------------------------------------------------------------
(* The bates strings: Page.number, Document.begin, Document.end *)

MaxFill == 3        \* fill of the numbering
MaxDigits == 4      \* decimal digits of the start number

RECURSIVE Pow10(_)
Pow10(k) == IF k = 0 THEN 1 ELSE 10 * Pow10(k - 1)

\* the prefixes, one of them empty and one ending in a digit
BatesPrefixes == { <<>>, <<"A", "B">>, <<"X", "1">> }

\* the start numbers: 0 and the least and greatest of every digit count
BatesStarts == {0} \cup { Pow10(k - 1) : k \in 1..MaxDigits }
                   \cup { Pow10(k) - 1 : k \in 1..MaxDigits }

\* the property Page.number is read on page j
ReadNumber(j) ==
    /\ pc = "idle"
    /\ outcome' = [kind |-> "returned",
                   value |-> PageNumber(documents[1].pages[j])]
    /\ hist' = [Forget EXCEPT !.op = "Page.number",
                              !.arg = documents[1].pages[j].start]
    /\ UNCHANGED <<prefix, fill, start, area, index, number, documents,
                   overwrite, fs, calls, threads, pc>>

\* the property Document.begin is read
ReadBegin ==
    /\ pc = "idle"
    /\ outcome' = [kind |-> "returned", value |-> begin(documents[1])]
    /\ hist' = [Forget EXCEPT !.op = "Document.begin",
                              !.arg = documents[1].start]
    /\ UNCHANGED <<prefix, fill, start, area, index, number, documents,
                   overwrite, fs, calls, threads, pc>>

\* the property Document.end is read
ReadEnd ==
    /\ pc = "idle"
    /\ outcome' = [kind |-> "returned", value |-> end(documents[1])]
    /\ hist' = [Forget EXCEPT !.op = "Document.end",
                              !.arg = documents[1].start
                                         + len(documents[1]) - 1]
    /\ UNCHANGED <<prefix, fill, start, area, index, number, documents,
                   overwrite, fs, calls, threads, pc>>

\* one Document with any prefix, fill and start
BatesInit ==
    /\ prefix \in BatesPrefixes
    /\ fill \in 1..MaxFill
    /\ start \in BatesStarts
    /\ area = "BOTTOM_RIGHT"
    /\ index = 0
    /\ number = 0
    /\ \E n \in 0..MaxPages :
          documents = <<Document([path |-> <<"a", ".", "p", "d", "f">>,
                                  numPages |-> n],
                                 prefix, fill, start, area, 1)>>
    /\ overwrite = FALSE
    /\ fs = <<>>
    /\ calls = <<>>
    /\ threads = 1
    /\ pc = "idle"
    /\ outcome = NoOutcome
    /\ hist = NoHist

NextBates ==
    \/ \E j \in 1..Len(documents[1].pages) : ReadNumber(j)
    \/ ReadBegin
    \/ ReadEnd

BatesSpec == BatesInit /\ [][NextBates]_vars

-----------------------------------------------------------------------------
(* Properties of the bates strings *)

\* the count of decimal digits of n >= 0
RECURSIVE DigitCount(_)
DigitCount(n) == IF n < 10 THEN 1 ELSE 1 + DigitCount(n \div 10)

BatesRead == hist.op \in {"Page.number", "Document.begin", "Document.end"}

\* C15: for every prefix, fill > 0 and number n >= 0 the bates string is the
\* prefix followed by decimal digits only, as many as n has and at least
\* fill of them, and the digits read as a decimal integer are n: the string
\* is zero-padded up to fill and never cut.
C15_BatesString ==
    (BatesRead /\ hist.arg >= 0) =>
        LET s == outcome.value
            n == hist.arg
            width == IF DigitCount(n) > fill THEN DigitCount(n) ELSE fill
        IN /\ Len(s) = Len(prefix) + width
           /\ SubSeq(s, 1, Len(prefix)) = prefix
           /\ \A i \in (Len(prefix) + 1)..Len(s) :
                 \E v \in 1..10 : s[i] = DigitChars[v]
           /\ NumberBehind(prefix, s) = n

\* the end of a document whose last number has more digits than fill
C15_Witness ==
    /\ hist.op = "Document.end"
    /\ len(documents[1]) >= 1
    /\ DigitCount(hist.arg) > fill
    /\ Len(outcome.value) > Len(prefix) + fill
    /\ prefix = <<"X", "1">>

-----------------------------------------------------------------------------
(* Page.apply: the overlays and redactions drawn on the page's canvas *)

\* the default of the parameter h of GenericTextOverlay.position
position_h == 15

\* the text of an overlay made with text = None
NoText == <<"None">>

\* GenericTextOverlay.__init__, lines 353-358: the text and the placement of
\* an overlay object
Placement(text, x, y, rotation, manual) ==
    [text |-> text, x |-> x, y |-> y, rotation |-> rotation,
     manual |-> manual]

\* Document.__init__, line 167: the document whose BatesOverlay carries the
\* placement handed to the constructor, and no text yet
DocumentWith(file, pfx, fl, st, a, oid, x, y, rotation, manual) ==
    [DocumentOf(file, pfx, fl, st, a, oid) EXCEPT
        !.overlays[a] = @ @@ Placement(NoText, x, y, rotation, manual)]

\* canvas.stringWidth of the drawing library, in a font whose characters
\* are all 6 points wide
stringWidth(text) == 6 * Len(text)

\* GenericTextOverlay.position for the overlay o on a canvas of the given
\* page size
position(o, pagesize, x, y, h, manual) ==
    IF manual THEN <<x, y>>
    ELSE LET from_bottom ==
                 IF o.area \in {"BOTTOM_LEFT", "BOTTOM_RIGHT"}
                 THEN pagesize[2] - h
                 ELSE h
             from_left ==
                 IF o.area \in {"TOP_LEFT", "BOTTOM_LEFT"}
                 THEN h
                 ELSE pagesize[1] - (h + stringWidth(o.text))
         IN <<30, pagesize[1] - stringWidth(o.text)>>

\* GenericTextOverlay.apply: the string the overlay draws on the canvas
overlay_apply(o, pagesize) ==
    [op |-> "drawCentredString", overlay |-> o,
     at |-> position(o, pagesize, o.x, o.y, position_h, o.manual),
     rotation |-> o.rotation, text |-> o.text]

\* Redaction.apply: the rectangle the redaction draws on the canvas
redaction_apply(r) == [op |-> "rect", redaction |-> r]

\* the areas in the order of Document.overlays.values()
AreaOrder == <<"TOP_LEFT", "TOP_RIGHT", "BOTTOM_LEFT", "BOTTOM_RIGHT">>

\* the areas of the overlays of d that Page.apply draws, in that order
Drawn(d) == SelectSeq(AreaOrder, LAMBDA a : d.overlays[a] # None)

\* Page.apply, lines 319-320: a BatesOverlay gets the page's number as text
Stamped(o, p) ==
    IF isBatesOverlay(o) THEN [o EXCEPT !.text = PageNumber(p)] ELSE o

\* the redactions drawn before the overlays
CanvasOps_RedactionsFirst(overlays, redactions) ==
    redactions \o overlays \o <<[op |-> "showPage"], [op |-> "save"]>>

\* Page.apply, lines 318-329: what is drawn on the canvas, and the canvas
\* finalized
CanvasOps(overlays, redactions) ==
    overlays \o redactions \o <<[op |-> "showPage"], [op |-> "save"]>>

\* Page.apply on page j of d: the document after it
PageApply(d, j) ==
    LET p == d.pages[j]
        drawn == Drawn(d)
        overlays == [n \in 1..Len(drawn) |->
                       overlay_apply(Stamped(d.overlays[drawn[n]], p),
                                     <<p.width, p.height>>)]
        redactions == [n \in 1..Len(p.redactions) |->
                         redaction_apply(p.redactions[n])]
        c == CanvasOps(overlays, redactions)
    IN [d EXCEPT !.overlays = [a \in Area |-> Stamped(@[a], p)],
                 !.pages[j].canvas = @ \o c,
                 !.pages[j].merged = Append(@, SubSeq(c, 1, Len(c) - 2)),
                 !.pages[j].applied = @ + 1]

\* the user calls Page.apply on page j, whose canvas is fresh
apply(j) ==
    /\ pc = "idle"
    /\ documents[1].pages[j].applied = 0
    /\ documents' = [documents EXCEPT ![1] = PageApply(@, j)]
    /\ outcome' = [kind |-> "returned", value |-> TRUE]
    /\ hist' = [Forget EXCEPT !.op = "Page.apply", !.arg = j,
                              !.before = documents]
    /\ UNCHANGED <<prefix, fill, start, area, index, number, overwrite, fs,
                   calls, threads, pc>>

\* page sizes in points: US letter, upright
LetterBoxes == { <<612, 792>> }

\* a one-page source PDF of that size
LetterFiles == [path : { <<"a", ".", "p", "d", "f">> }, numPages : {1},
                mediaBox : LetterBoxes]

\* the static overlays the user makes, placed automatically
StaticOverlays ==
    { Overlay("StaticOverlay", a, 100)
         @@ Placement(<<"D", "R", "A", "F", "T">>, 300, 30, 0, FALSE) :
      a \in Area }

\* redactions that lie on the page p
PlainRedactionsFor(p) ==
    { Redaction(<<0, 0>>, <<p.width, p.height>>),
      Redaction(<<1, 1>>, <<p.width - 1, p.height - 1>>) }

\* one Document with x, y, rotation at their defaults, positioned manually
\* or automatically
ApplyInit ==
    /\ prefix \in Prefixes
    /\ \E n \in Numberings : fill = n.fill /\ start = n.start
    /\ area \in Area
    /\ index = 0
    /\ number = 0
    /\ \E file \in LetterFiles, manual \in BOOLEAN :
          documents = <<DocumentWith(file, prefix, fill, start, area, 1,
                                     300, 30, 0, manual)>>
    /\ overwrite = FALSE
    /\ fs = <<>>
    /\ calls = <<>>
    /\ threads = 1
    /\ pc = "idle"
    /\ outcome = NoOutcome
    /\ hist = NoHist

NextApply ==
    \/ \E o \in StaticOverlays : add_overlay(o)
    \/ \E j \in 1..Len(documents[1].pages) :
          \E r \in PlainRedactionsFor(documents[1].pages[j]) :
              add_redaction(j, r)
    \/ \E j \in 1..Len(documents[1].pages) : apply(j)

ApplySpec == ApplyInit /\ [][NextApply]_vars

-----------------------------------------------------------------------------
(* Properties of Page.apply *)

Applied == hist.op = "Page.apply"

\* the page the last Page.apply was called on, before and after the call
AppliedBefore == hist.before[1].pages[hist.arg]
AppliedPage == documents[1].pages[hist.arg]

\* the anchor of an overlay of area a and text width w on a page of size
\* (width, height), with the margin h
Anchor(a, w, width, height, h) ==
    <<IF a \in {"TOP_LEFT", "BOTTOM_LEFT"} THEN h ELSE width - h - w,
      IF a \in {"TOP_LEFT", "TOP_RIGHT"} THEN height - h ELSE h>>

\* C16: an overlay positioned automatically is drawn at: height - 15 for the
\* top areas and 15 for the bottom areas, vertically; 15 for the left areas
\* and width - 15 - text width for the right areas, horizontally.
C16_AutomaticAnchor ==
    Applied =>
        \A n \in 1..Len(AppliedPage.canvas) :
            LET e == AppliedPage.canvas[n]
            IN (e.op = "drawCentredString" /\ ~e.overlay.manual) =>
                  e.at = Anchor(e.overlay.area, stringWidth(e.text),
                                AppliedPage.width, AppliedPage.height, 15)

\* C17: within one Page.apply every present overlay of the four slots is
\* drawn before any redaction, the redactions are drawn in the order they
\* were attached, and the canvas is finalized and merged after all of them.
C17_OverlaysThenRedactions ==
    Applied =>
        LET c == AppliedPage.canvas
            present == {a \in Area : hist.before[1].overlays[a] # None}
            ov == Cardinality(present)
            reds == AppliedBefore.redactions
        IN /\ Len(c) = ov + Len(reds) + 2
           /\ \A n \in 1..ov : c[n].op = "drawCentredString"
           /\ {c[n].overlay.area : n \in 1..ov} = present
           /\ \A n \in 1..Len(reds) :
                 c[ov + n] = [op |-> "rect", redaction |-> reds[n]]
           /\ c[Len(c) - 1].op = "showPage"
           /\ c[Len(c)].op = "save"
           /\ AppliedPage.merged = <<SubSeq(c, 1, ov + Len(reds))>>

\* a page with two overlays and two redactions was applied
C17_Witness ==
    /\ Applied
    /\ Len(AppliedBefore.redactions) = 2
    /\ AppliedBefore.redactions[1] # AppliedBefore.redactions[2]
    /\ Cardinality({a \in Area : hist.before[1].overlays[a] # None}) >= 2
    /\ Len(AppliedPage.canvas) >= 6

-----------------------------------------------------------------------------
(* A collection whose first document the user also saves directly *)

NextMixed ==
    \/ \E file \in BatchFiles : append(file, MaxDocs)
    \/ \E ow \in BOOLEAN : SaveBegin(ow, MaxThreads, MaxSaves)
    \/ \E k \in 1..Len(calls) : TaskStart(k)
    \/ \E k \in 1..Len(calls) : SaveOpen(k)
    \/ \E k \in 1..Len(calls) : SaveWrite(k)
    \/ SaveEnd
    \/ /\ Len(documents) >= 1
       /\ \E ow \in BOOLEAN : DocSaveBegin(NoFilename, ow)
    \/ \E k \in 1..Len(calls) : SaveCheck(k)
    \/ DocSaveEnd

MixedSpec == Init /\ [][NextMixed]_vars

\* C18: over any sequence of Document.save and Marisol.save calls, Page.apply
\* is invoked at most once on each Page.
C18_ApplyAtMostOnce ==
    \A i \in 1..Len(documents) :
        \A j \in 1..Len(documents[i].pages) :
            documents[i].pages[j].applied <= 1

\* a page rendered by a Document.save, after which the collection was
\* saved: the document's own file holds the page, the collection's file none
C18_Witness ==
    /\ SaveReturned
    /\ hist.saves >= 2
    /\ outcome.kind = "returned"
    /\ Len(documents) >= 1
    /\ len(documents[1]) >= 1
    /\ documents[1].pages[1].applied = 1
    /\ Content(ResolveFilename(documents[1], NoFilename)).state = "full"
    /\ Len(Content(ResolveFilename(documents[1], NoFilename)).pages) >= 1
    /\ Content(PathOf(1)).state = "full"

-----------------------------------------------------------------------------
(* Marisol.save with the page loop of every task taken step by step *)

\* source PDFs with pages
RaceFiles == [path : { <<"a", ".", "p", "d", "f">> },
              numPages : 1..MaxPages, mediaBox : LetterBoxes]

\* one BatesOverlay object handed to every document
BatesOverlayOf_Shared(n) == 1

\* Document.__init__, line 167: the BatesOverlay object made for the n-th
\* document of the collection, a new object for every document
BatesOverlayOf(n) == n

\* Marisol.append, with the placement the collection hands to the Document
\* (x, y, rotation, manual at their defaults)
append_placed(file, limit) ==
    /\ pc = "idle"
    /\ Len(documents) < limit
    /\ LET d == DocumentWith(file, prefix, fill, AppendStart, area,
                             BatesOverlayOf(Len(documents) + 1),
                             300, 30, 0, TRUE)
       IN /\ number' = number + len(d)
          /\ documents' = Append(documents, d)
    /\ outcome' = NoOutcome
    /\ hist' = Forget
    /\ UNCHANGED <<prefix, fill, start, area, index, overwrite, fs,
                   calls, threads, pc>>

\* a call of Document.save on documents[i] with the variables of its loops:
\* the page the page loop is at (0: none), the slot the overlay loop of
\* Page.apply is at, and whether that overlay's text was set
RaceCall(i, filename, ow) ==
    Call(i, filename, ow, "queued") @@ [page |-> 0, slot |-> 0, set |-> FALSE]

\* Marisol.save, lines 125-127, with such calls
RaceSaveBegin(ow, t) ==
    /\ pc = "idle"
    /\ hist.saves < 1
    /\ Len(documents) >= 1
    /\ overwrite' = ow
    /\ threads' = t
    /\ calls' = [k \in 1..Len(Submitted) |->
                   RaceCall(Submitted[k], save_path(documents[Submitted[k]]),
                            ow)]
    /\ index' = IF index < Len(documents) THEN Len(documents) ELSE index
    /\ pc' = "saving"
    /\ hist' = [Forget EXCEPT !.saves = @ + 1, !.op = "Marisol.save",
                               !.submitted = Submitted,
                               !.files = fs,
                               !.fresh = (index = 0 /\ hist.saves = 0)]
    /\ outcome' = NoOutcome
    /\ UNCHANGED <<prefix, fill, start, area, number, documents, fs>>

\* the first slot behind slot n of AreaOrder that holds an overlay, 5 when
\* there is none
NextSlot(d, n) ==
    LET rest == {m \in (n + 1)..4 : d.overlays[AreaOrder[m]] # None}
    IN IF rest = {} THEN 5 ELSE CHOOSE m \in rest : \A x \in rest : m <= x

\* overlay.text = ... on the overlay object `id`: every registry that holds
\* the object sees the new text
SetText(docs, id, text) ==
    [i \in 1..Len(docs) |->
        [docs[i] EXCEPT !.overlays =
            [a \in Area |-> IF @[a] # None /\ @[a].id = id
                            THEN [@[a] EXCEPT !.text = text]
                            ELSE @[a]]]]

\* Document.save, line 242: the page loop takes the next page
PageFetch(k) ==
    /\ pc = "saving"
    /\ calls[k].state = "write"
    /\ calls[k].page = 0
    /\ LET d == documents[calls[k].doc]
       IN /\ d.index < len(d)
          /\ documents' = [documents EXCEPT ![calls[k].doc].index = @ + 1]
          /\ calls' = [calls EXCEPT ![k].page = d.index + 1,
                                    ![k].slot = NextSlot(d, 0),
                                    ![k].set = FALSE]
    /\ UNCHANGED <<prefix, fill, start, area, index, number, overwrite, fs,
                   threads, pc, outcome, hist>>

\* Page.apply, line 320: the BatesOverlay's text is set to the page's number
TextSet(k) ==
    /\ pc = "saving"
    /\ calls[k].page # 0
    /\ calls[k].slot <= 4
    /\ ~calls[k].set
    /\ LET d == documents[calls[k].doc]
           o == d.overlays[AreaOrder[calls[k].slot]]
       IN /\ isBatesOverlay(o)
          /\ documents' = SetText(documents, o.id,
                                  PageNumber(d.pages[calls[k].page]))
    /\ calls' = [calls EXCEPT ![k].set = TRUE]
    /\ UNCHANGED <<prefix, fill, start, area, index, number, overwrite, fs,
                   threads, pc, outcome, hist>>

\* Page.apply, lines 321 and 323: the overlay draws its text as it is now
OverlayDraw(k) ==
    /\ pc = "saving"
    /\ calls[k].page # 0
    /\ calls[k].slot <= 4
    /\ LET d == documents[calls[k].doc]
           o == d.overlays[AreaOrder[calls[k].slot]]
           p == d.pages[calls[k].page]
       IN /\ calls[k].set \/ ~isBatesOverlay(o)
          /\ documents' =
                [documents EXCEPT ![calls[k].doc].pages[calls[k].page].canvas
                    = Append(@, overlay_apply(o, <<p.width, p.height>>))]
          /\ calls' = [calls EXCEPT ![k].slot = NextSlot(d, @),
                                    ![k].set = FALSE]
    /\ UNCHANGED <<prefix, fill, start, area, index, number, overwrite, fs,
                   threads, pc, outcome, hist>>

\* Page.apply, lines 325-335, and writer.addPage: the redactions, the canvas
\* finalized and merged, the page added to the writer
PageMerge(k) ==
    /\ pc = "saving"
    /\ calls[k].page # 0
    /\ calls[k].slot = 5
    /\ LET p == documents[calls[k].doc].pages[calls[k].page]
           redactions == [n \in 1..Len(p.redactions) |->
                            redaction_apply(p.redactions[n])]
           c == CanvasOps(p.canvas, redactions)
       IN documents' =
             [documents EXCEPT ![calls[k].doc].pages[calls[k].page] =
                 [p EXCEPT !.canvas = c,
                           !.merged = Append(@, SubSeq(c, 1, Len(c) - 2)),
                           !.applied = @ + 1]]
    /\ calls' = [calls EXCEPT ![k].writer = Append(@, calls[k].page),
                              ![k].page = 0, ![k].slot = 0]
    /\ UNCHANGED <<prefix, fill, start, area, index, number, overwrite, fs,
                   threads, pc, outcome, hist>>

\* Document.save, lines 245-246: the page loop has ended, the writer is
\* written to the file
TaskWrite(k) ==
    /\ pc = "saving"
    /\ calls[k].state = "write"
    /\ calls[k].page = 0
    /\ LET d == documents[calls[k].doc]
           e == Finish(calls[k], "", calls[k].filename)
       IN /\ d.index >= len(d)
          /\ fs' = Put(calls[k].filename, Written(d, calls[k].writer))
          /\ calls' = [calls EXCEPT ![k] = e]
          /\ hist' = Ended(e)
    /\ UNCHANGED <<prefix, fill, start, area, index, number, documents,
                   overwrite, threads, pc, outcome>>

NextRace ==
    \/ \E file \in RaceFiles : append_placed(file, MaxDocs)
    \/ RaceSaveBegin(FALSE, MaxThreads)
    \/ \E k \in 1..Len(calls) : TaskStart(k)
    \/ \E k \in 1..Len(calls) : SaveOpen(k)
    \/ \E k \in 1..Len(calls) : PageFetch(k)
    \/ \E k \in 1..Len(calls) : TextSet(k)
    \/ \E k \in 1..Len(calls) : OverlayDraw(k)
    \/ \E k \in 1..Len(calls) : PageMerge(k)
    \/ \E k \in 1..Len(calls) : TaskWrite(k)
    \/ SaveEnd

RaceSpec == Init /\ [][NextRace]_vars

\* C19: under every interleaving of the save tasks of one Marisol.save, the
\* text the numbering overlay of a document draws on a page is that page's
\* own bates number, the prefix and the zero-padded document start + index.
C19_OwnNumberDrawn ==
    \A i \in 1..Len(documents) :
        \A j \in 1..Len(documents[i].pages) :
            LET c == documents[i].pages[j].canvas
            IN \A n \in 1..Len(c) :
                  (/\ c[n].op = "drawCentredString"
                   /\ c[n].overlay.area = documents[i].area) =>
                      c[n].text = prefix \o zfill(str(documents[i].start
                                                         + (j - 1)), fill)

\* the task of the first document has set its overlay's text and has not
\* drawn it yet; meanwhile the task of the second document has set its own
\* and drawn it
C19_Witness ==
    /\ pc = "saving"
    /\ Len(calls) >= 2
    /\ calls[1].set
    /\ calls[2].page = 0
    /\ Len(calls[2].writer) >= 1
    /\ Len(documents[2].pages[1].canvas) >= 1

-----------------------------------------------------------------------------
(* A collection of documents from differently and equally named files *)

\* source files: the same name twice (in two directories), a name that ends
\* like a numbered output file, and one other name
NamedPaths == { <<"a", ".", "p", "d", "f">>,
                <<"d", "/", "a", ".", "p", "d", "f">>,
                <<"a", "_", "1", ".", "p", "d", "f">>,
                <<"b", ".", "p", "d", "f">> }

NamedFiles == [path : NamedPaths, numPages : 0..MaxBatchPages]

NextNamed ==
    \/ \E file \in NamedFiles : append(file, MaxDocs)
    \/ SaveBegin(TRUE, MaxThreads, 1)
    \/ \E k \in 1..Len(calls) : TaskStart(k)
    \/ \E k \in 1..Len(calls) : SaveOpen(k)
    \/ \E k \in 1..Len(calls) : SaveWrite(k)
    \/ SaveEnd

NamedSpec == Init /\ [][NextNamed]_vars

\* C20: two distinct documents of one collection that both have pages
\* resolve to different output paths in Marisol.save, also when they come
\* from files of the same name, and no two tasks of one save call that save
\* such documents hold the same path.
C20_DistinctPaths ==
    /\ \A i, j \in 1..Len(documents) :
          (i # j /\ len(documents[i]) >= 1 /\ len(documents[j]) >= 1) =>
              PathOf(i) # PathOf(j)
    /\ \A k, m \in 1..Len(calls) :
          (/\ k # m
           /\ calls[k].filename # <<>>
           /\ calls[m].filename # <<>>
           /\ len(documents[calls[k].doc]) >= 1
           /\ len(documents[calls[m].doc]) >= 1) =>
              calls[k].filename # calls[m].filename

\* two documents with pages, from files of the same name in two
\* directories, are being written at once
C20_Witness ==
    /\ pc = "saving"
    /\ Len(documents) = 2
    /\ documents[1].savename = documents[2].savename
    /\ len(documents[1]) >= 1
    /\ len(documents[2]) >= 1
    /\ calls[1].state = "write"
    /\ calls[2].state = "write"
    /\ calls[1].filename # calls[2].filename

====
